---- MODULE Spec2Model ----
(***************************************************************************)
(* tawhiri.wind: the checklist-guarded ingestion of GRIB records into a    *)
(* Dataset (src/tawhiri/wind/__init__.py).                                 *)
(*                                                                         *)
(* Several calls of unpack_grib run as cooperative tasks (greenlets) on    *)
(* one shared checklist and one shared dataset array.  A task gives up the *)
(* processor only inside its progress callback; everything between two     *)
(* callbacks of a task is one step.                                        *)
(***************************************************************************)
EXTENDS Integers, Sequences, FiniteSets, TLC

\* ------------------------------------------------------------------ bounds

NumTasks == 2
MaxRecs == 2

Tasks == 1..NumTasks

\* ------------------------------------------------------- Dataset constants

\* An optional value: None, or Some(v) whose value is v[1]
None == << >>
Some(v) == <<v>>
NoError == "None"

pressures_pgrb2f ==
    <<10, 20, 30, 50, 70, 100, 150, 200, 250, 300, 350, 400,
      450, 500, 550, 600, 650, 700, 750, 800, 850, 900, 925,
      950, 975, 1000>>

pressures_pgrb2bf ==
    <<1, 2, 3, 5, 7, 125, 175, 225, 275, 325, 375, 425,
      475, 525, 575, 625, 675, 725, 775, 825, 875>>

\* sorted(xs, reverse=True): insertion into a descending sequence
RECURSIVE InsertDesc(_, _)
InsertDesc(s, x) ==
    IF s = << >> THEN <<x>>
    ELSE IF x > Head(s) THEN <<x>> \o s
    ELSE <<Head(s)>> \o InsertDesc(Tail(s), x)

RECURSIVE SortedReverse(_)
SortedReverse(s) ==
    IF s = << >> THEN << >>
    ELSE InsertDesc(SortedReverse(Tail(s)), Head(s))

\* Dataset.axes: range(0, 192 + 3, 3); the merged pressures, descending;
\* the three variables.  Latitude and longitude are named by the grid they
\* span: a record's distinctLatitudes/distinctLongitudes either is this
\* grid or is another one.
axes_hour == [i \in 1..65 |-> 3 * (i - 1)]
axes_pressure == SortedReverse(pressures_pgrb2f \o pressures_pgrb2bf)
axes_variable == <<"height", "wind_u", "wind_v">>
axes_latitude == "arange(-90, 90.5, 0.5)"
axes_longitude == "arange(0, 360, 0.5)"

\* list.index(n): the first position holding n, counted from 0.  It raises
\* ValueError when n is absent: InAxis is the case in which it does not.
InAxis(axis, n) == \E i \in 1..Len(axis) : axis[i] = n

\* list.index counted from 1
IndexFromOne(axis, n) ==
    CHOOSE i \in 1..Len(axis) :
        /\ axis[i] = n
        /\ \A j \in 1..(i - 1) : axis[j] # n

Index(axis, n) ==
    (CHOOSE i \in 1..Len(axis) :
        /\ axis[i] = n
        /\ \A j \in 1..(i - 1) : axis[j] # n) - 1

\* Dataset.checklist(): every bit false.  A checklist is modelled by the set
\* of locations whose bit is true.
Dataset_checklist == {}

\* np.memmap(..., mode='w+'): a new array is zero-filled
ZeroGrid == <<0, 0>>

grib_name_to_variable(name) ==
    CASE name = "Geopotential Height" -> "height"
      [] name = "U component of wind" -> "wind_u"
      [] name = "V component of wind" -> "wind_v"

grib_names == {"Geopotential Height", "U component of wind",
               "V component of wind"}

\* Dataset.shape
shape == <<65, 47, 3, 361, 720>>

\* ----------------------------------------------------------------- records

\* The records the codec may yield in the runs explored here: a height
\* record on the dataset's grid at 1000 hPa for each hour of RecHours (hour 1
\* is not on the hour axis), a surface record, and a record on a one-degree
\* latitude grid.  A record's values are named by the shape of their array.
RecHours == {0, 3, 1}

StdRecord(h) ==
    [forecastTime |-> h, level |-> 1000, name |-> "Geopotential Height",
     typeOfLevel |-> "isobaricInhPa",
     distinctLatitudes |-> axes_latitude,
     distinctLongitudes |-> axes_longitude,
     values |-> <<shape[4], shape[5]>>]

\* A record on a grid of one degree in latitude: 181 rows of values
OneDegreeRecord(h) ==
    [StdRecord(h) EXCEPT !.distinctLatitudes = "arange(-90, 91, 1)",
                         !.values = <<181, shape[5]>>]

RecordUniverse ==
    {StdRecord(h) : h \in RecHours}
    \cup {[StdRecord(0) EXCEPT !.typeOfLevel = "surface"],
          OneDegreeRecord(3)}

Files == UNION {[1..n -> RecordUniverse] : n \in 0..MaxRecs}

\* Relevant, were the test of typeOfLevel (lines 159-160) left out
RelevantAnyLevel(r) == r.name \in grib_names

\* _grib_records: the records that pass the filter of lines 159-162
Relevant(r) ==
    /\ r.typeOfLevel = "isobaricInhPa"
    /\ r.name \in grib_names

location_name(r) ==
    <<r.forecastTime, r.level, grib_name_to_variable(r.name)>>

\* tuple(Dataset.axes[i].index(n) for i, n in enumerate(location_name))
Locatable(r) ==
    /\ InAxis(axes_hour, r.forecastTime)
    /\ InAxis(axes_pressure, r.level)
    /\ InAxis(axes_variable, grib_name_to_variable(r.name))

location(r) ==
    <<Index(axes_hour, r.forecastTime),
      Index(axes_pressure, r.level),
      Index(axes_variable, grib_name_to_variable(r.name))>>

\* The triples (location names) a manifest may list
Triples == {location_name(r) : r \in {x \in RecordUniverse :
                                        Relevant(x) /\ Locatable(x)}}

Manifests == {None} \cup {Some(m) : m \in SUBSET Triples}
AssertHours == {None, Some(0)}

\* ------------------------------------------------------------------- state

VARIABLES
    checklist,          \* the shared checklist: locations whose bit is true
    array,              \* dataset.array: location -> the grid stored there
    active,             \* the task that holds the processor, or None
    pc,                 \* per task: idle, loop, callback, done, failed
    err,                \* per task: the error its call raised, or None
    filename,           \* per task: the records of its GRIB file, in order
    file_checklist_arg, \* per task: the caller's file_checklist (manifest)
    assert_hour,        \* per task: the assert_hour argument
    callback,           \* per task: whether a callback is passed
    file_checklist,     \* per task: the local copy of the manifest
    checklist_temp,     \* per task: the file-local checklist
    checked_axes,       \* per task
    pos,                \* per task: records the codec has handed over
    gribmirror,         \* per task: positions of the records mirrored
    reported,           \* per task: location names given to the callback
    listing,            \* a run of Dataset.listdir over one directory
    ds,                 \* a Dataset object and its backing file
    lookup              \* a lookup of one value on one axis

unpack_vars ==
    <<checklist, array, active, pc, err, filename, file_checklist_arg,
      assert_hour, callback, file_checklist, checklist_temp,
      checked_axes, pos, gribmirror, reported>>

vars == <<unpack_vars, listing, ds, lookup>>

args == <<filename, file_checklist_arg, assert_hour, callback>>

Locations == {location(r) : r \in {x \in RecordUniverse :
                                     Relevant(x) /\ Locatable(x)}}

\* No directory is being listed, no Dataset object exists, no lookup is made
NoListing == [entries |-> << >>, only_suffices |-> None, next |-> 0,
              yielded |-> << >>]
NoDataset == [state |-> "none"]
NoLookup == [state |-> "none"]

other_vars == <<listing, ds, lookup>>

Init ==
    /\ listing = NoListing
    /\ ds = NoDataset
    /\ lookup = NoLookup
    /\ checklist = Dataset_checklist
    /\ array = [l \in Locations |-> ZeroGrid]
    /\ active = None
    /\ pc = [t \in Tasks |-> "idle"]
    /\ err = [t \in Tasks |-> NoError]
    /\ filename \in [Tasks -> Files]
    /\ file_checklist_arg \in [Tasks -> Manifests]
    /\ assert_hour \in [Tasks -> AssertHours]
    /\ callback = [t \in Tasks |-> TRUE]
    /\ file_checklist = [t \in Tasks |-> None]
    /\ checklist_temp = [t \in Tasks |-> {}]
    /\ checked_axes = [t \in Tasks |-> FALSE]
    /\ pos = [t \in Tasks |-> 0]
    /\ gribmirror = [t \in Tasks |-> << >>]
    /\ reported = [t \in Tasks |-> << >>]

\* ------------------------------------------------------------ _check_record

\* _check_record, were the test of the file-local checklist (lines 176-177)
\* left out
check_record_no_duplicate(t, r) ==
    IF location(r) \in checklist THEN "AlreadyUnpackedError"
    ELSE IF assert_hour[t] # None /\ r.forecastTime # assert_hour[t][1]
        THEN "UnexpectedHourError"
    ELSE IF file_checklist[t] # None
            /\ location_name(r) \notin file_checklist[t][1]
        THEN "UnexpectedRecordError"
    ELSE NoError

\* _check_record, were the test of the shared checklist (lines 178-180)
\* left out
check_record_no_shared(t, r) ==
    IF location(r) \in checklist_temp[t] THEN "DuplicateInFileError"
    ELSE IF assert_hour[t] # None /\ r.forecastTime # assert_hour[t][1]
        THEN "UnexpectedHourError"
    ELSE IF file_checklist[t] # None
            /\ location_name(r) \notin file_checklist[t][1]
        THEN "UnexpectedRecordError"
    ELSE NoError

\* _check_record, were the test of the shared checklist (lines 178-180) made
\* before the test of the file-local checklist (lines 176-177)
check_record_shared_first(t, r) ==
    IF location(r) \in checklist THEN "AlreadyUnpackedError"
    ELSE IF location(r) \in checklist_temp[t] THEN "DuplicateInFileError"
    ELSE IF assert_hour[t] # None /\ r.forecastTime # assert_hour[t][1]
        THEN "UnexpectedHourError"
    ELSE IF file_checklist[t] # None
            /\ location_name(r) \notin file_checklist[t][1]
        THEN "UnexpectedRecordError"
    ELSE NoError

check_record(t, r) ==
    IF location(r) \in checklist_temp[t] THEN "DuplicateInFileError"
    ELSE IF location(r) \in checklist THEN "AlreadyUnpackedError"
    ELSE IF assert_hour[t] # None /\ r.forecastTime # assert_hour[t][1]
        THEN "UnexpectedHourError"
    ELSE IF file_checklist[t] # None
            /\ location_name(r) \notin file_checklist[t][1]
        THEN "UnexpectedRecordError"
    ELSE NoError

\* _check_axes, were it to compare nothing
check_axes_nothing(r) == NoError

check_axes(r) ==
    IF r.distinctLatitudes # axes_latitude THEN "AxesError"
    ELSE IF r.distinctLongitudes # axes_longitude THEN "AxesError"
    ELSE NoError

\* dataset.array[location] = record.values (line 128): numpy stores values
\* whose shape is that of the slot or broadcasts to it (a dimension of one)
\* and raises ValueError for any other shape.
array_assign(r) ==
    IF \A i \in 1..2 : r.values[i] = shape[3 + i] \/ r.values[i] = 1
    THEN NoError
    ELSE "ValuesShapeError"

\* --------------------------------------------------------------- unpack_grib

\* Whether file_checklist.remove (line 139) reaches the set the caller
\* passed.  Were lines 110-111 left out, the local name would be that set.
ManifestNotCopied == TRUE

\* Line 111 binds the local name to file_checklist.copy(), a new set
ManifestShared == FALSE

\* The caller's set after line 139 for the triple n
CallerSet(t, n) ==
    IF file_checklist[t] # None /\ ManifestShared
    THEN [file_checklist_arg EXCEPT ![t] = Some(@[1] \ {n})]
    ELSE file_checklist_arg

\* Raise, were the failing call to clear the grids it has written
RaiseRollback(t, e) ==
    /\ pc' = [pc EXCEPT ![t] = "failed"]
    /\ err' = [err EXCEPT ![t] = e]
    /\ active' = None
    /\ array' = [l \in DOMAIN array |->
                    IF array[l][1] = t THEN ZeroGrid ELSE array[l]]
    /\ UNCHANGED <<checklist, file_checklist, checklist_temp,
                   checked_axes, gribmirror, reported, file_checklist_arg>>

\* A raise leaves unpack_grib: nothing is undone, the task gives up the
\* processor.
Raise(t, e) ==
    /\ pc' = [pc EXCEPT ![t] = "failed"]
    /\ err' = [err EXCEPT ![t] = e]
    /\ active' = None
    /\ UNCHANGED <<checklist, array, file_checklist, checklist_temp,
                   checked_axes, gribmirror, reported, file_checklist_arg>>

\* The call, up to the first request for a record (lines 105-114)
Call(t) ==
    /\ pc[t] = "idle"
    /\ active = None
    /\ active' = Some(t)
    /\ pc' = [pc EXCEPT ![t] = "loop"]
    /\ file_checklist' = [file_checklist EXCEPT ![t] = file_checklist_arg[t]]
    /\ checklist_temp' = [checklist_temp EXCEPT ![t] = Dataset_checklist]
    /\ checked_axes' = [checked_axes EXCEPT ![t] = FALSE]
    /\ UNCHANGED <<checklist, array, err, pos, gribmirror, reported>>
    /\ UNCHANGED args
    /\ UNCHANGED other_vars

\* StreamEnded, were the loop to stop one record early
StreamEndedEarly(t) == pos[t] >= Len(filename[t]) - 1

\* for ... in _grib_records(filename): whether the codec has no record left
StreamEnded(t) == pos[t] = Len(filename[t])

\* Accept, were line 136 to set the bit of the shared checklist as well
AcceptPublishing(t, k, r) ==
    /\ array' = [array EXCEPT ![location(r)] = <<t, k>>]
    /\ gribmirror' = [gribmirror EXCEPT ![t] = Append(@, k)]
    /\ checklist_temp' = [checklist_temp EXCEPT ![t] = @ \cup {location(r)}]
    /\ checklist' = checklist \cup {location(r)}
    /\ file_checklist' =
         IF file_checklist[t] # None
         THEN [file_checklist EXCEPT ![t] = Some(@[1] \ {location_name(r)})]
         ELSE file_checklist
    /\ file_checklist_arg' = CallerSet(t, location_name(r))
    /\ IF callback[t]
       THEN /\ reported' = [reported EXCEPT ![t] = Append(@, location_name(r))]
            /\ pc' = [pc EXCEPT ![t] = "callback"]
            /\ active' = None
       ELSE UNCHANGED <<reported, pc, active>>
    /\ checked_axes' = [checked_axes EXCEPT ![t] = TRUE]
    /\ UNCHANGED err

\* Accept, were line 139 (file_checklist.remove) left out
AcceptNoRemove(t, k, r) ==
    /\ array' = [array EXCEPT ![location(r)] = <<t, k>>]
    /\ gribmirror' = [gribmirror EXCEPT ![t] = Append(@, k)]
    /\ checklist_temp' = [checklist_temp EXCEPT ![t] = @ \cup {location(r)}]
    /\ IF callback[t]
       THEN /\ reported' = [reported EXCEPT ![t] = Append(@, location_name(r))]
            /\ pc' = [pc EXCEPT ![t] = "callback"]
            /\ active' = None
       ELSE UNCHANGED <<reported, pc, active>>
    /\ checked_axes' = [checked_axes EXCEPT ![t] = TRUE]
    /\ UNCHANGED <<checklist, err, file_checklist, file_checklist_arg>>

\* The body of the loop for the record r at position k that passed every
\* check and whose values the array takes (lines 127-141)
Accept(t, k, r) ==
    /\ array' = [array EXCEPT ![location(r)] = <<t, k>>]
    /\ gribmirror' = [gribmirror EXCEPT ![t] = Append(@, k)]
    /\ checklist_temp' = [checklist_temp EXCEPT ![t] = @ \cup {location(r)}]
    /\ file_checklist' =
         IF file_checklist[t] # None
         THEN [file_checklist EXCEPT ![t] = Some(@[1] \ {location_name(r)})]
         ELSE file_checklist
    /\ file_checklist_arg' = CallerSet(t, location_name(r))
    /\ IF callback[t]
       THEN /\ reported' = [reported EXCEPT ![t] = Append(@, location_name(r))]
            /\ pc' = [pc EXCEPT ![t] = "callback"]
            /\ active' = None
       ELSE UNCHANGED <<reported, pc, active>>
    /\ checked_axes' = [checked_axes EXCEPT ![t] = TRUE]
    /\ UNCHANGED <<checklist, err>>

\* One turn of the loop: the codec's next record, filtered, located, checked
\* and unpacked (lines 116-141, 158-170)
NextRecord(t) ==
    /\ pc[t] = "loop"
    /\ active = Some(t)
    /\ ~StreamEnded(t)
    /\ pos' = [pos EXCEPT ![t] = @ + 1]
    /\ LET k == pos[t] + 1
           r == filename[t][k]
       IN  IF ~Relevant(r)
           THEN UNCHANGED <<checklist, array, active, pc, err, file_checklist,
                            checklist_temp, checked_axes, gribmirror, reported,
                            file_checklist_arg>>
           ELSE IF ~Locatable(r) THEN Raise(t, "UnknownLocationError")
           ELSE IF check_record(t, r) # NoError THEN Raise(t, check_record(t, r))
           ELSE IF ~checked_axes[t] /\ check_axes(r) # NoError
                THEN Raise(t, check_axes(r))
           ELSE IF array_assign(r) # NoError THEN Raise(t, array_assign(r))
           ELSE Accept(t, k, r)
    /\ UNCHANGED <<filename, assert_hour, callback>>
    /\ UNCHANGED other_vars

\* The callback returns: the task takes the processor again (line 141)
Resume(t) ==
    /\ pc[t] = "callback"
    /\ active = None
    /\ active' = Some(t)
    /\ pc' = [pc EXCEPT ![t] = "loop"]
    /\ UNCHANGED <<checklist, array, err, file_checklist, checklist_temp,
                   checked_axes, pos, gribmirror, reported>>
    /\ UNCHANGED args
    /\ UNCHANGED other_vars

\* file_checklist != set()  (line 143): None is not equal to the empty set
RecordsMissing(fc) == fc = None \/ fc[1] # {}

\* Overlap, were the re-check of line 147 left out
OverlapNever(shared, temp) == FALSE

\* (checklist & checklist_temp).any()  (line 147)
Overlap(shared, temp) == shared \cap temp # {}

\* Merge, were line 151 "checklist = checklist | checklist_temp": the local
\* name is rebound and the shared array keeps its bits
MergeLocalOnly(shared, temp) == shared

\* checklist |= checklist_temp  (line 151)
Merge(shared, temp) == shared \cup temp

\* After the loop (lines 143-153)
EndOfStream(t) ==
    /\ pc[t] = "loop"
    /\ active = Some(t)
    /\ StreamEnded(t)
    /\ IF RecordsMissing(file_checklist[t])
       THEN Raise(t, "MissingRecordsError")
       ELSE IF Overlap(checklist, checklist_temp[t])
       THEN Raise(t, "RaceConditionError")
       ELSE /\ checklist' = Merge(checklist, checklist_temp[t])
            /\ pc' = [pc EXCEPT ![t] = "done"]
            /\ active' = None
            /\ UNCHANGED <<array, err, file_checklist, checklist_temp,
                           checked_axes, gribmirror, reported>>
    /\ UNCHANGED pos
    /\ UNCHANGED args
    /\ UNCHANGED other_vars

Next ==
    \E t \in Tasks :
        \/ Call(t)
        \/ NextRecord(t)
        \/ Resume(t)
        \/ EndOfStream(t)

Spec == Init /\ [][Next]_vars

\* ------------------------------------------------------------------ claims

Done == {t \in Tasks : pc[t] = "done"}
Failed == {t \in Tasks : pc[t] = "failed"}

\* The step is the one in which the call of t raises
Fails(t) == pc[t] # "failed" /\ pc'[t] = "failed"

\* The step is the one in which the call of t returns normally
Commits(t) == pc[t] # "done" /\ pc'[t] = "done"

\* C1: a call of unpack_grib that ends in a failure changes no bit of the
\* shared checklist.  The step in which a call raises leaves the checklist
\* as it is; the checklist changes only in the step in which a call returns
\* normally; and a call that has returned normally does not fail later.  So
\* no step of a failing call, at whatever record and however interleaved,
\* has touched the checklist.
C1_FailureLeavesChecklist ==
    [][/\ \A t \in Tasks : Fails(t) => checklist' = checklist
       /\ checklist' # checklist => \E t \in Tasks : Commits(t)
       /\ \A t \in Tasks : pc[t] = "done" => pc'[t] = "done"]_vars

\* A call has failed after accepting a record whose bit is still false,
\* while another call has committed its own records.
C1_Witness ==
    \E t \in Failed, u \in Done :
        /\ checklist_temp[u] # {}
        /\ \E l \in checklist_temp[t] : l \notin checklist

\* C2: in every reachable state the shared checklist is its initial value
\* OR-ed with the file-local checklists of exactly the calls that have
\* returned normally: a call in progress or suspended in its callback has
\* contributed nothing, a successful one all its slots.
C2_ChecklistIsCommitted ==
    checklist = Dataset_checklist \cup UNION {checklist_temp[t] : t \in Done}

\* One call has committed and another, suspended in its callback, holds an
\* accepted slot that is not in the shared checklist.
C2_Witness ==
    \E t \in Done, u \in Tasks :
        /\ checklist_temp[t] # {}
        /\ pc[u] = "callback"
        /\ \E l \in checklist_temp[u] : l \notin checklist

\* C3: two calls that both succeeded committed disjoint sets of slots.
C3_CommitsDisjoint ==
    \A t, u \in Done : t # u => checklist_temp[t] \cap checklist_temp[u] = {}

\* Two calls have committed, each at least one slot.
C3_Witness ==
    \E t, u \in Done :
        /\ t # u
        /\ checklist_temp[t] # {}
        /\ checklist_temp[u] # {}

\* ---- properties of the arguments of a call

Range(q) == {q[i] : i \in 1..Len(q)}

\* The positions of a file whose records pass the filter of _grib_records
RelevantPositions(f) == {k \in 1..Len(f) : Relevant(f[k])}

\* The slots the records of a file map to
Slots(f) ==
    {location(f[k]) : k \in {j \in RelevantPositions(f) : Locatable(f[j])}}

\* Every record of the file is an isobaric record of a known variable, on
\* the axes and on the dataset's grid, of the expected hour if one is given,
\* and no two records name the same triple.
RecordsValid(t) ==
    LET f == filename[t] IN
    /\ \A k \in 1..Len(f) :
          /\ Relevant(f[k])
          /\ Locatable(f[k])
          /\ f[k].distinctLatitudes = axes_latitude
          /\ f[k].distinctLongitudes = axes_longitude
          /\ assert_hour[t] # None => f[k].forecastTime = assert_hour[t][1]
    /\ \A j, k \in 1..Len(f) :
          j # k => location_name(f[j]) # location_name(f[k])

NamesOf(f) == {location_name(f[k]) : k \in 1..Len(f)}

\* A well-formed file whose records exactly match the manifest passed
ExactFile(t) ==
    /\ RecordsValid(t)
    /\ file_checklist_arg[t] # None
    /\ file_checklist_arg[t][1] = NamesOf(filename[t])

\* A well-formed file passed with a matching manifest or with none
ValidFile(t) ==
    /\ RecordsValid(t)
    /\ file_checklist_arg[t] # None
          => file_checklist_arg[t][1] = NamesOf(filename[t])

\* A file of valid records that lacks a triple of its manifest
IncompleteFile(t) ==
    /\ RecordsValid(t)
    /\ file_checklist_arg[t] # None
    /\ NamesOf(filename[t]) \subseteq file_checklist_arg[t][1]
    /\ NamesOf(filename[t]) # file_checklist_arg[t][1]

\* No other call is given a record of a slot of t's file
Isolated(t) ==
    \A u \in Tasks \ {t} : Slots(filename[u]) \cap Slots(filename[t]) = {}

Terminated(t) == pc[t] \in {"done", "failed"}

\* The call of t is running and has never been suspended: it began after
\* every step the other calls have taken so far.
FreshRun(t) ==
    /\ pc[t] = "loop"
    /\ active = Some(t)
    /\ reported[t] = << >>

\* C4: a well-formed file whose records exactly match its manifest, run
\* among calls on files of other slots, never fails, and the step in which
\* it returns sets exactly the bits of its slots, all of them false before,
\* and changes no other bit.
C4_ExactFileCommits ==
    [][\A t \in Tasks :
         ExactFile(t) /\ Isolated(t) =>
           /\ pc'[t] # "failed"
           /\ Commits(t) =>
                 /\ checklist \cap Slots(filename[t]) = {}
                 /\ checklist' = checklist \cup Slots(filename[t])]_vars

\* Such a file of at least one record has been committed after another call
\* has accepted records of its own.
C4_Witness ==
    \E t \in Done, u \in Tasks :
        /\ ExactFile(t) /\ Isolated(t)
        /\ Slots(filename[t]) # {}
        /\ Slots(filename[t]) \subseteq checklist
        /\ t # u
        /\ checklist_temp[u] # {}

\* The outcome C5 states for two calls t and u that have both ended
PairOutcome(t, u) ==
    IF Slots(filename[t]) \cap Slots(filename[u]) = {}
    THEN /\ pc[t] = "done" /\ pc[u] = "done"
         /\ checklist = Slots(filename[t]) \cup Slots(filename[u])
    ELSE \E w \in {t, u} :
           LET l == CHOOSE x \in {t, u} : x # w IN
           /\ pc[w] = "done"
           /\ pc[l] = "failed"
           /\ err[l] \in {"AlreadyUnpackedError", "RaceConditionError"}
           /\ checklist = Slots(filename[w])

OnlyTasks(t, u) == \A x \in Tasks \ {t, u} : pc[x] = "idle"

\* C5: of two concurrent calls on well-formed files, both commit and the
\* checklist holds the union of their triples when the triples are
\* disjoint; exactly one commits, the other fails with AlreadyUnpackedError
\* or RaceConditionError and the checklist holds the winner's triples when
\* they overlap.
C5_TwoTasks ==
    \A t, u \in Tasks :
        (/\ t # u
         /\ OnlyTasks(t, u)
         /\ ValidFile(t) /\ ValidFile(u)
         /\ Terminated(t) /\ Terminated(u)) => PairOutcome(t, u)

\* C5 for calls that are each passed a manifest: this part holds.
C5_TwoTasksWithManifest ==
    \A t, u \in Tasks :
        (/\ t # u
         /\ OnlyTasks(t, u)
         /\ ExactFile(t) /\ ExactFile(u)
         /\ Terminated(t) /\ Terminated(u)) => PairOutcome(t, u)

\* C6: with a manifest, the call fails with MissingRecordsError after the
\* stream ends exactly when the working set is not empty; without a
\* manifest it never fails with MissingRecordsError.
C6_MissingRecords ==
    \A t \in Tasks :
        IF file_checklist_arg[t] # None
        THEN /\ err[t] = "MissingRecordsError" =>
                   /\ pos[t] = Len(filename[t])
                   /\ file_checklist[t][1] # {}
             /\ (pc[t] = "done" \/ err[t] = "RaceConditionError") =>
                   file_checklist[t][1] = {}
        ELSE err[t] # "MissingRecordsError"

\* C6 for calls that are passed a manifest: this part holds.
C6_MissingRecordsWithManifest ==
    \A t \in Tasks :
        file_checklist_arg[t] # None =>
          /\ err[t] = "MissingRecordsError" =>
                /\ pos[t] = Len(filename[t])
                /\ file_checklist[t][1] # {}
          /\ (pc[t] = "done" \/ err[t] = "RaceConditionError") =>
                file_checklist[t][1] = {}

\* C7 as stated: the file of a call that has committed, ingested again with
\* the same arguments by a call that began after the commit, fails with
\* AlreadyUnpackedError and leaves the checklist unchanged.
C7_ReingestFails ==
    [][\A t, u \in Tasks :
         (/\ t # u
          /\ pc[t] = "done"
          /\ filename[u] = filename[t]
          /\ file_checklist_arg[u] = file_checklist_arg[t]
          /\ assert_hour[u] = assert_hour[t]
          /\ FreshRun(u)) =>
           /\ checklist' = checklist
           /\ pc'[u] \in {"loop", "failed"}
           /\ pc'[u] = "failed" => err'[u] = "AlreadyUnpackedError"]_vars

\* C7, amended: the file of a call that has committed, if it holds at least
\* one record that passes the filter, ingested again (with whatever
\* arguments) by a call that began after the commit, fails with
\* AlreadyUnpackedError at the first such record and leaves the checklist
\* unchanged.
C7_ReingestRecordFails ==
    [][\A t, u \in Tasks :
         (/\ t # u
          /\ pc[t] = "done"
          /\ filename[u] = filename[t]
          /\ RelevantPositions(filename[u]) # {}
          /\ FreshRun(u)) =>
           /\ checklist' = checklist
           /\ pc'[u] \in {"loop", "failed"}
           /\ pc'[u] = "loop" =>
                 pos'[u] \notin RelevantPositions(filename[u])
           /\ pc'[u] = "failed" =>
                 /\ err'[u] = "AlreadyUnpackedError"
                 /\ \A k \in RelevantPositions(filename[u]) : pos'[u] <= k]_vars

\* A committed file of at least one record has been ingested again and the
\* second call has failed with AlreadyUnpackedError at its first record.
C7_Witness ==
    \E t \in Done, u \in Failed :
        /\ filename[u] = filename[t]
        /\ RelevantPositions(filename[u]) # {}
        /\ err[u] = "AlreadyUnpackedError"
        /\ checklist_temp[u] = {}
        /\ checklist = checklist_temp[t]

\* The record at position k of f maps to the slot of an earlier record
Repeats(f, k) ==
    /\ k \in RelevantPositions(f)
    /\ Locatable(f[k])
    /\ \E j \in RelevantPositions(f) :
          j < k /\ Locatable(f[j]) /\ location(f[j]) = location(f[k])

FirstOf(f, k) ==
    CHOOSE j \in RelevantPositions(f) :
        j < k /\ Locatable(f[j]) /\ location(f[j]) = location(f[k])

\* C8: when the second of two records of one slot is reached the call fails
\* with DuplicateInFileError; the checklist is unchanged, the first record
\* has been written to the array and mirrored, the second has not.  A file
\* that holds two such records is never committed.
C8_DuplicateInFile ==
    [][\A t \in Tasks :
         LET f == filename[t]
             k == pos[t] + 1
         IN /\ (pc[t] = "loop" /\ pos'[t] = k /\ Repeats(f, k)) =>
                 LET j == FirstOf(f, k)
                     l == location(f[k])
                 IN /\ Fails(t)
                    /\ err'[t] = "DuplicateInFileError"
                    /\ checklist' = checklist
                    /\ j \in Range(gribmirror'[t])
                    /\ k \notin Range(gribmirror'[t])
                    /\ array'[l] # <<t, k>>
                    /\ array'[l] = <<t, j>> \/ array'[l][1] \notin {t, 0}
            /\ (\E i \in 1..Len(f) : Repeats(f, i)) => pc'[t] # "done"]_vars

\* A call has failed with DuplicateInFileError and the grid of the first of
\* the two records is in the array.
C8_Witness ==
    \E t \in Failed :
        /\ err[t] = "DuplicateInFileError"
        /\ Repeats(filename[t], pos[t])
        /\ array[location(filename[t][pos[t]])]
             = <<t, FirstOf(filename[t], pos[t])>>

\* C9: MissingRecordsError is raised only when the stream has ended, after
\* every record has been written, mirrored and reported to the callback,
\* and leaves the checklist unchanged; a file of valid records that lacks a
\* triple of its manifest, run among calls on files of other slots, fails
\* with this error and no other.
C9_MissingAfterScan ==
    [][\A t \in Tasks :
         LET f == filename[t] IN
         /\ (Fails(t) /\ err'[t] = "MissingRecordsError") =>
               /\ pos[t] = Len(f)
               /\ Range(gribmirror[t]) = RelevantPositions(f)
               /\ Len(gribmirror[t]) = Cardinality(RelevantPositions(f))
               /\ callback[t] => Len(reported[t]) = Len(gribmirror[t])
               /\ \A k \in RelevantPositions(f) :
                     \/ array[location(f[k])] = <<t, k>>
                     \/ array[location(f[k])][1] \notin {t, 0}
               /\ checklist' = checklist
         /\ (IncompleteFile(t) /\ Isolated(t)) =>
               /\ pc'[t] # "done"
               /\ Fails(t) => err'[t] = "MissingRecordsError"]_vars

\* A file of valid records, at least one, that lacks a triple of its
\* manifest has failed with MissingRecordsError.
C9_Witness ==
    \E t \in Failed :
        /\ IncompleteFile(t)
        /\ err[t] = "MissingRecordsError"
        /\ Len(gribmirror[t]) >= 1
        /\ pos[t] = Len(filename[t])

\* C10: after a call has failed, the grid of every record it accepted is
\* still in the array (it is the call's own grid unless another call wrote
\* the slot after it), and the bit of such a slot is set only if another
\* call committed it.
C10_NoRollback ==
    \A t \in Failed :
        \A k \in Range(gribmirror[t]) :
            LET l == location(filename[t][k]) IN
            /\ array[l] # ZeroGrid
            /\ (\A u \in Tasks \ {t} : l \notin checklist_temp[u])
                  => array[l] = <<t, k>>
            /\ l \in checklist
                  => \E u \in Done \ {t} : l \in checklist_temp[u]

\* A slot holds the grid of a failed call and its bit is false.
C10_Witness ==
    \E t \in Failed :
        \E k \in Range(gribmirror[t]) :
            LET l == location(filename[t][k]) IN
            /\ array[l] = <<t, k>>
            /\ l \notin checklist

\* ============================================================ Dataset.listdir

\* No call of unpack_grib is made
UnpackIdle ==
    /\ checklist = Dataset_checklist
    /\ array = [l \in Locations |-> ZeroGrid]
    /\ active = None
    /\ pc = [t \in Tasks |-> "idle"]
    /\ err = [t \in Tasks |-> NoError]
    /\ filename = [t \in Tasks |-> << >>]
    /\ file_checklist_arg = [t \in Tasks |-> None]
    /\ assert_hour = [t \in Tasks |-> None]
    /\ callback = [t \in Tasks |-> TRUE]
    /\ file_checklist = [t \in Tasks |-> None]
    /\ checklist_temp = [t \in Tasks |-> {}]
    /\ checked_axes = [t \in Tasks |-> FALSE]
    /\ pos = [t \in Tasks |-> 0]
    /\ gribmirror = [t \in Tasks |-> << >>]
    /\ reported = [t \in Tasks |-> << >>]

\* A string is the sequence of its characters.
MaxEntries == 2

Digits == <<"0", "1", "2", "3", "4", "5", "6", "7", "8", "9">>
IsDigit(c) == InAxis(Digits, c)
DigitValue(c) == Index(Digits, c)
Number(q) ==
    IF Len(q) = 4
    THEN 1000 * DigitValue(q[1]) + 100 * DigitValue(q[2])
         + 10 * DigitValue(q[3]) + DigitValue(q[4])
    ELSE 10 * (IF q[1] = " " THEN 0 ELSE DigitValue(q[1])) + DigitValue(q[2])

\* The directives of "%Y%m%d%H" as datetime.strptime matches them.  A string
\* of ten characters is matched whole only if each of %m, %d, %H takes two:
\*   %Y  \d\d\d\d
\*   %m  1[0-2] | 0[1-9] | [1-9]
\*   %d  3[0-1] | [1-2]\d | 0[1-9] | [1-9] | " "[1-9]
\*   %H  2[0-3] | [0-1]\d | \d
MatchesYear(q) == \A i \in 1..4 : IsDigit(q[i])
MatchesMonth(q) ==
    \/ q[1] = "1" /\ q[2] \in {"0", "1", "2"}
    \/ q[1] = "0" /\ IsDigit(q[2]) /\ q[2] # "0"
MatchesDay(q) ==
    \/ q[1] = "3" /\ q[2] \in {"0", "1"}
    \/ q[1] \in {"1", "2"} /\ IsDigit(q[2])
    \/ q[1] \in {"0", " "} /\ IsDigit(q[2]) /\ q[2] # "0"
MatchesHour(q) ==
    \/ q[1] = "2" /\ q[2] \in {"0", "1", "2", "3"}
    \/ q[1] \in {"0", "1"} /\ IsDigit(q[2])

IsLeap(y) == (y % 4 = 0 /\ y % 100 # 0) \/ y % 400 = 0
DaysInMonth(y, m) ==
    IF m = 2 THEN (IF IsLeap(y) THEN 29 ELSE 28)
    ELSE IF m \in {4, 6, 9, 11} THEN 30 ELSE 31

\* datetime.strptime(ds_time_str, "%Y%m%d%H") of a string of ten characters:
\* whether it returns, and the datetime (year, month, day, hour) it returns
StrptimeParses(q) ==
    /\ MatchesYear(SubSeq(q, 1, 4))
    /\ MatchesMonth(SubSeq(q, 5, 6))
    /\ MatchesDay(SubSeq(q, 7, 8))
    /\ MatchesHour(SubSeq(q, 9, 10))
    /\ Number(SubSeq(q, 1, 4)) >= 1
    /\ Number(SubSeq(q, 7, 8))
         <= DaysInMonth(Number(SubSeq(q, 1, 4)), Number(SubSeq(q, 5, 6)))

Strptime(q) ==
    <<Number(SubSeq(q, 1, 4)), Number(SubSeq(q, 5, 6)),
      Number(SubSeq(q, 7, 8)), Number(SubSeq(q, 9, 10))>>

\* os.path.join(directory, filename) for a filename without separator
path_join(d, f) ==
    IF d = << >> \/ d[Len(d)] = "/" THEN d \o f ELSE d \o <<"/">> \o f

\* The names a directory may hold and the directory listed
EntryNames ==
    {<<"2", "0", "2", "4", "0", "1", "0", "1", "0", "0">>,
     <<"2", "0", "2", "4", "0", "1", "0", "1", "0", "0", ".", "g", "r", "i", "b", "m", "i", "r", "r", "o", "r">>,
     <<"n", "o", "t", "a", "d", "a", "t", "e", ".", "t", "m", "p">>,
     <<"2", "0", "2", "4", "0", "1", "0", "1", "0", "6", ".", "t", "m", "p">>,
     <<"2", "0", "2", "4", "0", "2", "3", "0", "0", "0">>,
     <<"2", "0", "2", "4", "0", "1", " ", "1", "0", "0">>,
     <<"2", "0", "2", "4">>}

Directory == <<"d", "s">>

SUFFIX_GRIBMIRROR == <<".", "g", "r", "i", "b", "m", "i", "r", "r", "o", "r">>

\* os.listdir(directory): the names in some order, none twice
Listings ==
    {e \in UNION {[1..n -> EntryNames] : n \in 0..MaxEntries} :
        \A i, j \in 1..Len(e) : i # j => e[i] # e[j]}

SuffixFilters ==
    {None} \cup {Some(f) : f \in SUBSET {<< >>, SUFFIX_GRIBMIRROR}}

\* "if only_suffices": None and the empty set are both false
Truthy(only_suffices) == only_suffices # None /\ only_suffices[1] # {}

\* Whether the loop body yields for this name (lines 53-64)
Yields(f, only_suffices) ==
    /\ Len(f) >= 10
    /\ StrptimeParses(SubSeq(f, 1, 10))
    /\ ~(Truthy(only_suffices)
         /\ SubSeq(f, 11, Len(f)) \notin only_suffices[1])

\* cls._listdir_type(ds_time, suffix, filename, path) (lines 66-67)
listdir_item(d, f) ==
    [ds_time |-> Strptime(SubSeq(f, 1, 10)),
     suffix |-> SubSeq(f, 11, Len(f)),
     filename |-> f,
     path |-> path_join(d, f)]

ListdirInit ==
    /\ UnpackIdle
    /\ ds = NoDataset
    /\ lookup = NoLookup
    /\ \E e \in Listings, f \in SuffixFilters :
         listing = [entries |-> e, only_suffices |-> f, next |-> 0,
                    yielded |-> << >>]

\* One turn of the loop of the generator (lines 52-67)
listdir(d) ==
    /\ listing.next < Len(listing.entries)
    /\ LET f == listing.entries[listing.next + 1] IN
       listing' =
         [listing EXCEPT
            !.next = @ + 1,
            !.yielded = IF Yields(f, listing.only_suffices)
                        THEN Append(@, listdir_item(d, f)) ELSE @]
    /\ UNCHANGED <<unpack_vars, ds, lookup>>

ListdirNext == listdir(Directory)

SpecListdir == ListdirInit /\ [][ListdirNext]_vars

\* What C11 says listdir yields for the entries e: those of ten characters
\* or more whose first ten parse and, when a filter is given, whose suffix
\* is in it; each as (timestamp, suffix, filename, joined path).
RECURSIVE ClaimedListing(_, _, _)
ClaimedListing(d, e, only_suffices) ==
    IF e = << >> THEN << >>
    ELSE LET f == Head(e)
             rest == ClaimedListing(d, Tail(e), only_suffices)
         IN IF /\ Len(f) >= 10
               /\ StrptimeParses(SubSeq(f, 1, 10))
               /\ only_suffices # None
                    => SubSeq(f, 11, Len(f)) \in only_suffices[1]
            THEN <<[ds_time |-> Strptime(SubSeq(f, 1, 10)),
                    suffix |-> SubSeq(f, 11, Len(f)),
                    filename |-> f,
                    path |-> d \o <<"/">> \o f]>> \o rest
            ELSE rest

ListdirFinished == listing.next = Len(listing.entries)

\* C11: listdir yields exactly the entries whose first ten characters parse
\* as a timestamp and, for every filter that is given, whatever set it is,
\* whose suffix is in the filter; each item is (timestamp, suffix, filename,
\* directory joined with filename); shorter and unparseable names are
\* skipped.
C11_Listdir ==
    ListdirFinished =>
      listing.yielded
        = ClaimedListing(Directory, listing.entries, listing.only_suffices)

\* C11 for a filter that is not given or is not empty: this part holds.
C11_ListdirNonEmptyFilter ==
    (ListdirFinished /\ listing.only_suffices # Some({})) =>
      listing.yielded
        = ClaimedListing(Directory, listing.entries, listing.only_suffices)

\* =================================================== Dataset open and close

MaxCloses == 3

itemsize == 8

\* A byte length is <<g, b>>: g whole grids of shape[4] x shape[5] float64
\* and b < GridBytes further bytes (the product itself exceeds 32 bits).
GridBytes == shape[4] * shape[5] * itemsize
Bytes(g, b) == <<g + (b \div GridBytes), b % GridBytes>>
ExpectedBytes == Bytes(shape[1] * shape[2] * shape[3], 0)
Shorter(x, y) == x[1] < y[1] \/ (x[1] = y[1] /\ x[2] < y[2])

\* The file at self.fn before the constructor runs: None when there is none
FileSizes ==
    {Bytes(0, 0), Bytes(1, 0), Bytes(ExpectedBytes[1] - 1, GridBytes - itemsize),
     ExpectedBytes, Bytes(ExpectedBytes[1], itemsize),
     Bytes(ExpectedBytes[1] + 1, 0)}
FileStates == {None} \cup {Some(z) : z \in FileSizes}

DatasetTimes == {<<2024, 1, 1, 0>>, <<2023, 12, 31, 18>>}
DatasetSuffixes == {<< >>, SUFFIX_GRIBMIRROR}

\* ds_time.strftime("%Y%m%d%H")
RECURSIVE Decimal(_)
Decimal(n) ==
    IF n < 10 THEN <<Digits[n + 1]>>
    ELSE Append(Decimal(n \div 10), Digits[(n % 10) + 1])
Pad2(n) == <<Digits[(n \div 10) + 1], Digits[(n % 10) + 1]>>
Strftime(t) == Decimal(t[1]) \o Pad2(t[2]) \o Pad2(t[3]) \o Pad2(t[4])

\* Dataset.filename(directory, ds_time, suffix) (lines 45-48)
Dataset_filename(d, t, suffix) == path_join(d, Strftime(t) \o suffix)

\* np.memmap(fn, mode, dtype=np.float64, shape=shape): the error it raises.
\* Mode 'w+' creates or truncates the file; mode 'r' maps ExpectedBytes of
\* the file as it is, which mmap refuses only for a file that has fewer.
memmap_error(file, new) ==
    IF new THEN NoError
    ELSE IF file = None THEN "FileNotFoundError"
    ELSE IF Shorter(file[1], ExpectedBytes) THEN "ValueError"
    ELSE NoError

DatasetInit ==
    /\ UnpackIdle
    /\ listing = NoListing
    /\ lookup = NoLookup
    /\ \E f \in FileStates, t \in DatasetTimes, x \in DatasetSuffixes,
          n \in BOOLEAN :
         ds = [state |-> "none", file |-> f, ds_time |-> t, suffix |-> x,
               new |-> n, fn |-> << >>, array |-> FALSE, err |-> NoError,
               closes |-> 0, releases |-> 0, log |-> 0, deleted |-> FALSE]

\* Dataset.__init__ (lines 73-84)
Dataset_init(d) ==
    /\ ds.state = "none"
    /\ LET e == memmap_error(ds.file, ds.new) IN
       ds' = [ds EXCEPT
                !.fn = Dataset_filename(d, ds.ds_time, ds.suffix),
                !.log = @ + 1,
                !.err = e,
                !.state = IF e = NoError THEN "constructed" ELSE "failed",
                !.array = (e = NoError),
                !.file = IF ds.new THEN Some(ExpectedBytes) ELSE @]
    /\ UNCHANGED <<unpack_vars, listing, lookup>>

\* close without the hasattr test: del of a missing attribute raises
close_unguarded(d) ==
    IF d.array
    THEN [d EXCEPT !.array = FALSE, !.releases = @ + 1, !.log = @ + 1,
                   !.closes = @ + 1]
    ELSE [d EXCEPT !.closes = @ + 1, !.err = "AttributeError"]

\* The body of close (lines 90-92)
close(d) ==
    IF d.array
    THEN [d EXCEPT !.array = FALSE, !.releases = @ + 1, !.log = @ + 1,
                   !.closes = @ + 1]
    ELSE [d EXCEPT !.closes = @ + 1]

\* An explicit ds.close() by the holder of a constructed Dataset
Dataset_close ==
    /\ ds.state = "constructed"
    /\ ~ds.deleted
    /\ ds.closes < MaxCloses
    /\ ds' = close(ds)
    /\ UNCHANGED <<unpack_vars, listing, lookup>>

\* Dataset.__del__ (lines 86-87): once, also after a failed constructor
Dataset_del ==
    /\ ds.state \in {"constructed", "failed"}
    /\ ~ds.deleted
    /\ ds' = [close(ds) EXCEPT !.deleted = TRUE]
    /\ UNCHANGED <<unpack_vars, listing, lookup>>

DatasetNext == Dataset_init(Directory) \/ Dataset_close \/ Dataset_del

SpecDataset == DatasetInit /\ [][DatasetNext]_vars

\* What close leaves of a Dataset, the count of calls aside
ClosedState(d) == <<d.state, d.array, d.releases, d.log, d.err, d.file, d.fn>>

\* C12: close releases the mapping, and every call after the first (the call
\* made on destruction included) leaves the Dataset as the first call left
\* it, raises nothing and releases nothing again.
C12_CloseIdempotent ==
    [][ /\ (ds.state = "constructed" /\ ds'.closes = 1)
           => (ds.array /\ ~ds'.array /\ ds'.releases = 1
               /\ ds'.err = NoError)
        /\ (ds.state = "constructed" /\ ds.closes >= 1)
           => (ClosedState(ds') = ClosedState(ds) /\ ~ds'.array
               /\ ds'.releases = 1 /\ ds'.err = NoError) ]_vars

C12_Witness ==
    /\ ds.state = "constructed"
    /\ ds.closes = MaxCloses
    /\ ds.deleted
    /\ ds.releases = 1

OpenedExisting == ds.state # "none" /\ ~ds.new /\ ds.file # None

\* C13: opening (new=False) an existing file fails with a format error
\* whenever its size differs from product(shape) x 8, shorter or longer, and
\* succeeds only when the size is exactly that.
C13_OpenSizeMismatch ==
    OpenedExisting =>
      /\ ds.file[1] = ExpectedBytes => (ds.err = NoError /\ ds.array)
      /\ ds.file[1] # ExpectedBytes => (ds.err = "ValueError" /\ ~ds.array)

\* C13 for files that are not longer than expected: this part holds.
C13_OpenShorterFails ==
    (OpenedExisting /\ ~Shorter(ExpectedBytes, ds.file[1])) =>
      /\ ds.file[1] = ExpectedBytes => (ds.err = NoError /\ ds.state = "constructed")
      /\ ds.file[1] # ExpectedBytes => (ds.err = "ValueError" /\ ds.state = "failed")

\* ============================================================== axis lookup

MaxLookupHour == 194

axes(name) ==
    CASE name = "hour" -> axes_hour
      [] name = "pressure" -> axes_pressure
      [] name = "variable" -> axes_variable

\* Values looked up: on and off each axis
LookupHours == (0 - 1)..MaxLookupHour
LookupPressures ==
    {pressures_pgrb2f[i] : i \in 1..Len(pressures_pgrb2f)}
      \cup {pressures_pgrb2bf[i] : i \in 1..Len(pressures_pgrb2bf)}
      \cup {0, 4, 126, 1001}
LookupVariables == {"height", "wind_u", "wind_v", "temperature"}

\* Dataset.axes[i].index(n): <<position>>, or << >> for ValueError
axis_index(name, n) ==
    IF InAxis(axes(name), n) THEN Some(Index(axes(name), n)) ELSE None

IndexInit ==
    /\ UnpackIdle
    /\ listing = NoListing
    /\ ds = NoDataset
    /\ \/ \E a, b \in LookupHours :
            lookup = [state |-> "index", axis |-> "hour", values |-> <<a, b>>,
                      results |-> << >>]
       \/ \E a, b \in LookupPressures :
            lookup = [state |-> "index", axis |-> "pressure",
                      values |-> <<a, b>>, results |-> << >>]
       \/ \E a, b \in LookupVariables :
            lookup = [state |-> "index", axis |-> "variable",
                      values |-> <<a, b>>, results |-> << >>]

\* One Dataset.axes[i].index(n) (line 167)
index ==
    /\ lookup.state = "index"
    /\ Len(lookup.results) < Len(lookup.values)
    /\ lookup' =
         [lookup EXCEPT
            !.results =
               Append(@, axis_index(lookup.axis,
                                    lookup.values[Len(lookup.results) + 1]))]
    /\ UNCHANGED <<unpack_vars, listing, ds>>

IndexNext == index

SpecIndex == IndexInit /\ [][IndexNext]_vars

\* The position C14 names for a value, << >> where it names a failure
ClaimedIndex(name, v) ==
    CASE name = "hour" ->
           IF v \in 0..192 /\ v % 3 = 0 THEN <<v \div 3>> ELSE << >>
      [] name = "pressure" ->
           IF v \in Range(pressures_pgrb2f) \cup Range(pressures_pgrb2bf)
           THEN <<Cardinality({q \in Range(pressures_pgrb2f)
                                       \cup Range(pressures_pgrb2bf) : q > v})>>
           ELSE << >>
      [] name = "variable" ->
           CASE v = "height" -> <<0>>
             [] v = "wind_u" -> <<1>>
             [] v = "wind_v" -> <<2>>
             [] OTHER -> << >>

\* C14: a lookup returns the position p with axis[p] = value and fails when
\* the value is absent: hour h gives h/3, a pressure its position in the 47
\* strictly descending pressures (0 for 1000), the variables 0, 1, 2; two
\* values found at the same position are the same value.
C14_IndexOf ==
    /\ Len(axes_hour) = 65 /\ Len(axes_pressure) = 47
    /\ \A i \in 1..46 : axes_pressure[i] > axes_pressure[i + 1]
    /\ \A i \in 1..Len(lookup.results) :
         LET v == lookup.values[i]
             r == lookup.results[i]
         IN /\ r = ClaimedIndex(lookup.axis, v)
            /\ r # << >> => axes(lookup.axis)[r[1] + 1] = v
            /\ (lookup.axis = "hour" /\ v = 0) => r = <<0>>
            /\ (lookup.axis = "pressure" /\ v = 1000) => r = <<0>>
    /\ (Len(lookup.results) = 2 /\ lookup.results[1] # << >>
        /\ lookup.results[1] = lookup.results[2])
         => lookup.values[1] = lookup.values[2]

C14_Witness ==
    /\ lookup.state = "index"
    /\ lookup.axis = "pressure"
    /\ lookup.values = <<1000, 126>>
    /\ lookup.results = <<<<0>>, << >>>>

\* ---------------------------------------------------- claims on the array

\* The grid at slot l is the one the call t wrote from its record for l
GridOf(l, t) ==
    /\ array[l][1] = t
    /\ array[l][2] \in 1..Len(filename[t])
    /\ Relevant(filename[t][array[l][2]])
    /\ location(filename[t][array[l][2]]) = l

\* C15: for every slot whose bit in the shared checklist is true, the array
\* holds at that slot the grid of the record of the call whose commit set the
\* bit, in every reachable state; a call that is rejected later never leaves
\* its grid in a slot committed by another call.
C15_CommittedGrid ==
    \A l \in checklist :
        \E t \in Done : l \in checklist_temp[t] /\ GridOf(l, t)

\* C15 for the slots no other call has accepted: this part holds.
C15_CommittedGridUncontended ==
    \A l \in checklist :
        (\A u \in Tasks \ Done : l \notin checklist_temp[u])
          => \E t \in Done : l \in checklist_temp[t] /\ GridOf(l, t)

\* ------------------------------------------------- claims on single records

\* The step is a turn of the loop of t
Turn(t) == pc[t] = "loop" /\ active = Some(t) /\ pos'[t] = pos[t] + 1

\* The record the turn of t is about
TurnRecord(t) == filename[t][pos[t] + 1]

\* What a turn may write for a record, the position in the file aside
RecordEffects(t) ==
    <<array, gribmirror[t], checklist_temp[t], file_checklist[t],
      reported[t], checklist>>

OffAxes(r) ==
    \/ r.forecastTime \notin {3 * h : h \in 0..64}
    \/ r.level \notin Range(pressures_pgrb2f) \cup Range(pressures_pgrb2bf)

\* The checks a record violates, in the order C16 gives, as the sequence of
\* their errors
Violations(t, r) ==
    IF OffAxes(r) THEN <<"UnknownLocationError">>
    ELSE SelectSeq(
           <<"DuplicateInFileError", "AlreadyUnpackedError",
             "UnexpectedHourError", "UnexpectedRecordError">>,
           LAMBDA e :
             \/ e = "DuplicateInFileError" /\ location(r) \in checklist_temp[t]
             \/ e = "AlreadyUnpackedError" /\ location(r) \in checklist
             \/ e = "UnexpectedHourError"
                  /\ assert_hour[t] # None
                  /\ assert_hour[t] # Some(r.forecastTime)
             \/ e = "UnexpectedRecordError"
                  /\ file_checklist[t] # None
                  /\ location_name(r) \notin file_checklist[t][1])

\* C16: a record that violates one or more of the per-record checks fails
\* with the first of them in the order axis lookup, duplicate in file,
\* already unpacked, expected hour, manifest membership; and the failing
\* record causes no write to the array, no mirror append, no file-local bit,
\* no manifest removal and no callback.  A record violating none of them
\* does not fail with any of their errors.
C16_CheckOrder ==
    [][\A t \in Tasks :
         (Turn(t) /\ Relevant(TurnRecord(t))) =>
           LET v == Violations(t, TurnRecord(t)) IN
             IF v # << >>
             THEN /\ pc'[t] = "failed"
                  /\ err'[t] = Head(v)
                  /\ RecordEffects(t)' = RecordEffects(t)
             ELSE err'[t] \in {NoError, "AxesError", "ValuesShapeError"}]_vars

\* A call has failed with DuplicateInFileError on a record that its manifest
\* does not hold any more either.
C16_Witness ==
    \E t \in Failed :
        /\ err[t] = "DuplicateInFileError"
        /\ file_checklist[t] # None
        /\ location_name(filename[t][pos[t]]) \notin file_checklist[t][1]
        /\ array[location(filename[t][pos[t]])] = <<t, pos[t] - 1>>

\* The records that are unpacked: isobaric, of a recognized variable
Kept(r) ==
    /\ r.typeOfLevel = "isobaricInhPa"
    /\ r.name \in {"Geopotential Height", "U component of wind",
                   "V component of wind"}

AxesDiffer(r) ==
    \/ r.distinctLatitudes # "arange(-90, 90.5, 0.5)"
    \/ r.distinctLongitudes # "arange(0, 360, 0.5)"

\* The call of t has unpacked nothing yet
NothingUnpacked(t) ==
    /\ gribmirror[t] = << >>
    /\ checklist_temp[t] = {}
    /\ reported[t] = << >>
    /\ \A l \in Locations : array[l][1] # t

\* The values of r have the shape of a slot of the array, 361 x 720, or one
\* that numpy repeats to fill it
FitsSlot(r) ==
    /\ r.values[1] \in {361, 1}
    /\ r.values[2] \in {720, 1}

\* C17 as stated: the latitude/longitude axes are compared for the first
\* record that passes the per-record checks and for no later one.  If the
\* axes of that first record differ the call fails before anything is
\* written to the array, the mirror or the file-local checklist; a later
\* record with other axes is accepted and written without error.
C17_AxesCheckedOnce ==
    [][\A t \in Tasks :
         (/\ Turn(t)
          /\ Kept(TurnRecord(t))
          /\ Violations(t, TurnRecord(t)) = << >>) =>
           LET r == TurnRecord(t) IN
             IF gribmirror[t] = << >> /\ AxesDiffer(r)
             THEN /\ pc'[t] = "failed"
                  /\ err'[t] = "AxesError"
                  /\ NothingUnpacked(t)
                  /\ RecordEffects(t)' = RecordEffects(t)
             ELSE /\ err'[t] = NoError
                  /\ array'[location(r)] = <<t, pos[t] + 1>>
                  /\ gribmirror'[t] = Append(gribmirror[t], pos[t] + 1)
                  /\ location(r) \in checklist_temp'[t]]_vars

\* C17, amended: the axes are compared for the first record that passes the
\* per-record checks and for no later one.  If the axes of that first record
\* differ the call fails before anything is written.  A later record with
\* other axes is not compared: it is accepted and written without error when
\* the array takes its values, and when the array does not (values of
\* another shape) the call fails at the write to the array with nothing
\* written for that record.
C17_AxesComparedOnce ==
    [][\A t \in Tasks :
         (/\ Turn(t)
          /\ Kept(TurnRecord(t))
          /\ Violations(t, TurnRecord(t)) = << >>) =>
           LET r == TurnRecord(t) IN
             IF gribmirror[t] = << >> /\ AxesDiffer(r)
             THEN /\ pc'[t] = "failed"
                  /\ err'[t] = "AxesError"
                  /\ NothingUnpacked(t)
                  /\ RecordEffects(t)' = RecordEffects(t)
             ELSE IF FitsSlot(r)
             THEN /\ err'[t] = NoError
                  /\ array'[location(r)] = <<t, pos[t] + 1>>
                  /\ gribmirror'[t] = Append(gribmirror[t], pos[t] + 1)
                  /\ location(r) \in checklist_temp'[t]
             ELSE /\ pc'[t] = "failed"
                  /\ err'[t] = "ValuesShapeError"
                  /\ RecordEffects(t)' = RecordEffects(t)]_vars

\* The second record of a file had other axes, values of the shape of a
\* slot, and was unpacked.
C17_Witness ==
    \E t \in Tasks :
        /\ gribmirror[t] = <<1, 2>>
        /\ AxesDiffer(filename[t][2])
        /\ FitsSlot(filename[t][2])
        /\ ~AxesDiffer(filename[t][1])
        /\ array[location(filename[t][2])] = <<t, 2>>
        /\ err[t] = NoError

\* ========================================= unpack_grib on unfiltered streams

\* Records of other level types and other variables, on and off the axes,
\* next to two records that are unpacked
SkipUniverse ==
    {StdRecord(0), StdRecord(3),
     [StdRecord(0) EXCEPT !.typeOfLevel = "surface"],
     [StdRecord(1) EXCEPT !.typeOfLevel = "surface"],
     [StdRecord(0) EXCEPT !.name = "Temperature", !.level = 4]}

SkipFiles == UNION {[1..n -> SkipUniverse] : n \in 0..(MaxRecs + 1)}

\* One call on a stream of SkipFiles, the other calls on a file of at most
\* one record of hour 0
SkipInit ==
    /\ listing = NoListing
    /\ ds = NoDataset
    /\ lookup = NoLookup
    /\ checklist = Dataset_checklist
    /\ array = [l \in Locations |-> ZeroGrid]
    /\ active = None
    /\ pc = [t \in Tasks |-> "idle"]
    /\ err = [t \in Tasks |-> NoError]
    /\ filename \in [Tasks -> SkipFiles]
    /\ \A t \in Tasks \ {1} : filename[t] \in {<< >>, <<StdRecord(0)>>}
    /\ file_checklist_arg \in [Tasks -> Manifests]
    /\ \A t \in Tasks \ {1} :
          file_checklist_arg[t] = Some({location_name(filename[t][k]) : k \in 1..Len(filename[t])})
    /\ assert_hour \in [Tasks -> AssertHours]
    /\ \A t \in Tasks \ {1} : assert_hour[t] = None
    /\ callback = [t \in Tasks |-> TRUE]
    /\ file_checklist = [t \in Tasks |-> None]
    /\ checklist_temp = [t \in Tasks |-> {}]
    /\ checked_axes = [t \in Tasks |-> FALSE]
    /\ pos = [t \in Tasks |-> 0]
    /\ gribmirror = [t \in Tasks |-> << >>]
    /\ reported = [t \in Tasks |-> << >>]

SpecSkip == SkipInit /\ [][Next]_vars

\* ---- C18

\* What a call run alone on a fresh checklist has done to the records g of
\* a stream, every one of them Kept
RECURSIVE Unpacked(_, _, _)
Unpacked(g, manifest, hour) ==
    IF g = << >>
    THEN [err |-> NoError, temp |-> {}, working |-> manifest,
          mirror |-> << >>, reported |-> << >>]
    ELSE LET u == Unpacked(SubSeq(g, 1, Len(g) - 1), manifest, hour)
             r == g[Len(g)]
         IN IF u.err # NoError THEN u
            ELSE IF OffAxes(r) THEN [u EXCEPT !.err = "UnknownLocationError"]
            ELSE IF location(r) \in u.temp
                 THEN [u EXCEPT !.err = "DuplicateInFileError"]
            ELSE IF hour # None /\ hour # Some(r.forecastTime)
                 THEN [u EXCEPT !.err = "UnexpectedHourError"]
            ELSE IF u.working # None /\ location_name(r) \notin u.working[1]
                 THEN [u EXCEPT !.err = "UnexpectedRecordError"]
            ELSE IF u.mirror = << >> /\ AxesDiffer(r)
                 THEN [u EXCEPT !.err = "AxesError"]
            ELSE IF ~FitsSlot(r)
                 THEN [u EXCEPT !.err = "ValuesShapeError"]
            ELSE [u EXCEPT
                    !.temp = @ \cup {location(r)},
                    !.working = IF @ = None THEN None
                                ELSE Some(@[1] \ {location_name(r)}),
                    !.mirror = Append(@, r),
                    !.reported = Append(@, location_name(r))]

\* The same at the end of the stream, with the checklist the call leaves
UnpackedFile(g, manifest, hour) ==
    LET u == Unpacked(g, manifest, hour) IN
      IF u.err # NoError THEN <<u, {}>>
      ELSE IF u.working # Some({})
           THEN <<[u EXCEPT !.err = "MissingRecordsError"], {}>>
      ELSE <<u, u.temp>>

\* What the call of t has done, as Unpacked gives it
Observed(t) ==
    <<[err |-> err[t], temp |-> checklist_temp[t],
       working |-> file_checklist[t],
       mirror |-> [i \in 1..Len(gribmirror[t]) |->
                      filename[t][gribmirror[t][i]]],
       reported |-> reported[t]],
      checklist>>

Alone(t) == \A u \in Tasks \ {t} : pc[u] = "idle"

\* C18: a record whose level type is not isobaric or whose variable is not
\* recognized is skipped without any effect: no error, even when its hour or
\* level is off the axes, no checklist bit, no write to the array or the
\* mirror, no test against the manifest, no callback; and a call ends as it
\* would have on the stream without those records.
C18_SkippedRecords ==
    [][\A t \in Tasks :
         /\ (Turn(t) /\ ~Kept(TurnRecord(t))) =>
               /\ pc'[t] = "loop"
               /\ err'[t] = NoError
               /\ active' = active
               /\ RecordEffects(t)' = RecordEffects(t)
               /\ checked_axes'[t] = checked_axes[t]
         /\ (Alone(t) /\ ~Terminated(t) /\ Terminated(t)') =>
               Observed(t)' = UnpackedFile(SelectSeq(filename[t], Kept),
                                           file_checklist_arg[t],
                                           assert_hour[t])]_vars

\* A call has committed a file in which a surface record of an hour off the
\* axis and a record of another variable precede the record unpacked.
C18_Witness ==
    \E t \in Done :
        /\ Len(filename[t]) = 3
        /\ filename[t][1].typeOfLevel = "surface"
        /\ filename[t][1].forecastTime = 1
        /\ filename[t][2].name = "Temperature"
        /\ filename[t][3] = StdRecord(0)
        /\ gribmirror[t] = <<3>>
        /\ checklist = {<<0, 0, 0>>}

\* ---- C19

\* The step is a turn of t in which its record is unpacked
Unpacks(t) == Turn(t) /\ gribmirror'[t] # gribmirror[t]

\* C19: the set the caller passed as manifest is never modified, on success
\* and on every failure path it holds the triples it held before the call:
\* the removal for an unpacked record is made in the copy of the call, and
\* the caller's set still holds the triple.
C19_ManifestUnmodified ==
    [][/\ file_checklist_arg' = file_checklist_arg
       /\ \A t \in Tasks :
            (Unpacks(t) /\ file_checklist_arg[t] # None) =>
              LET n == location_name(TurnRecord(t)) IN
                /\ n \in file_checklist[t][1]
                /\ file_checklist'[t] = Some(file_checklist[t][1] \ {n})
                /\ n \in file_checklist_arg'[t][1]]_vars

\* One call has returned and another has failed, each after removing every
\* triple of a manifest that is not empty from its working set.
C19_Witness ==
    \E t \in Done, u \in Failed :
        /\ file_checklist_arg[t] # None /\ file_checklist_arg[t][1] # {}
        /\ file_checklist[t] = Some({})
        /\ file_checklist_arg[u] # None /\ file_checklist_arg[u][1] # {}
        /\ file_checklist[u] = Some({})

\* ===================================== unpack_grib with and without callback

\* Calls of which each is or is not passed a callback (callback=None): a
\* call without one is never suspended.
CallbackInit ==
    /\ listing = NoListing
    /\ ds = NoDataset
    /\ lookup = NoLookup
    /\ checklist = Dataset_checklist
    /\ array = [l \in Locations |-> ZeroGrid]
    /\ active = None
    /\ pc = [t \in Tasks |-> "idle"]
    /\ err = [t \in Tasks |-> NoError]
    /\ filename \in [Tasks -> Files]
    /\ file_checklist_arg \in [Tasks -> Manifests]
    /\ assert_hour = [t \in Tasks |-> None]
    /\ callback \in [Tasks -> BOOLEAN]
    /\ file_checklist = [t \in Tasks |-> None]
    /\ checklist_temp = [t \in Tasks |-> {}]
    /\ checked_axes = [t \in Tasks |-> FALSE]
    /\ pos = [t \in Tasks |-> 0]
    /\ gribmirror = [t \in Tasks |-> << >>]
    /\ reported = [t \in Tasks |-> << >>]

SpecCallback == CallbackInit /\ [][Next]_vars

\* ---- C20

\* The call of t has never been suspended in a callback
NeverSuspended(t) == ~callback[t] \/ reported[t] = << >>

\* C20: a call fails with RaceConditionError only when another call has
\* committed one of the slots it had accepted, after its per-record check of
\* that slot (the bit was false when the record was unpacked) and before its
\* re-check; a call that is not suspended in a callback never fails with
\* RaceConditionError, holds no slot of the shared checklist, and fails with
\* AlreadyUnpackedError at the record whose slot is in the shared checklist.
C20_RaceNeedsInterleaving ==
    [][\A t \in Tasks :
         /\ Unpacks(t) => location(TurnRecord(t)) \notin checklist
         /\ (Fails(t) /\ err'[t] = "RaceConditionError") =>
               /\ StreamEnded(t)
               /\ ~NeverSuspended(t)
               /\ \E u \in Done \ {t} :
                     checklist_temp[u] \cap checklist_temp[t] # {}
         /\ NeverSuspended(t) =>
               /\ err'[t] # "RaceConditionError"
               /\ pc[t] = "loop" => checklist_temp[t] \cap checklist = {}
               /\ (/\ Turn(t)
                   /\ Kept(TurnRecord(t))
                   /\ ~OffAxes(TurnRecord(t))
                   /\ location(TurnRecord(t)) \in checklist) =>
                     /\ pc'[t] = "failed"
                     /\ err'[t] = "AlreadyUnpackedError"]_vars

\* A call suspended in its callback has failed with RaceConditionError on a
\* slot that a call without callback committed in the meantime.
C20_Witness ==
    \E t \in Failed, u \in Done :
        /\ callback[t]
        /\ ~callback[u]
        /\ err[t] = "RaceConditionError"
        /\ checklist_temp[t] \cap checklist_temp[u] # {}
        /\ checklist_temp[u] \subseteq checklist

\* ============================== unpack_grib on records of other grids

\* A record whose latitudes run from north to south: other axes, values of
\* the shape of a slot
DescendingRecord(h) ==
    [StdRecord(h) EXCEPT !.distinctLatitudes = "arange(90, -90.5, -0.5)"]

\* A record of a single latitude: its row of values is repeated over a slot
SingleRowRecord(h) ==
    [StdRecord(h) EXCEPT !.distinctLatitudes = "arange(0, 0.5, 0.5)",
                         !.values = <<1, shape[5]>>]

AxesUniverse ==
    {StdRecord(0), StdRecord(3), OneDegreeRecord(3), OneDegreeRecord(0),
     DescendingRecord(3), SingleRowRecord(3)}

AxesFiles == UNION {[1..n -> AxesUniverse] : n \in 0..MaxRecs}

\* One call on a stream of AxesFiles, the other calls on a file of at most
\* one record of hour 0
AxesInit ==
    /\ listing = NoListing
    /\ ds = NoDataset
    /\ lookup = NoLookup
    /\ checklist = Dataset_checklist
    /\ array = [l \in Locations |-> ZeroGrid]
    /\ active = None
    /\ pc = [t \in Tasks |-> "idle"]
    /\ err = [t \in Tasks |-> NoError]
    /\ filename \in [Tasks -> AxesFiles]
    /\ \A t \in Tasks \ {1} : filename[t] \in {<< >>, <<StdRecord(0)>>}
    /\ file_checklist_arg \in [Tasks -> Manifests]
    /\ \A t \in Tasks \ {1} :
          file_checklist_arg[t] =
            Some({location_name(filename[t][k]) : k \in 1..Len(filename[t])})
    /\ assert_hour \in [Tasks -> AssertHours]
    /\ \A t \in Tasks \ {1} : assert_hour[t] = None
    /\ callback = [t \in Tasks |-> TRUE]
    /\ file_checklist = [t \in Tasks |-> None]
    /\ checklist_temp = [t \in Tasks |-> {}]
    /\ checked_axes = [t \in Tasks |-> FALSE]
    /\ pos = [t \in Tasks |-> 0]
    /\ gribmirror = [t \in Tasks |-> << >>]
    /\ reported = [t \in Tasks |-> << >>]

SpecAxes == AxesInit /\ [][Next]_vars

====
